---- MODULE Spec2Model ----
(***************************************************************************)
(* Orchestration core of zeta-reticula: the zeta_reticula_workflow DAG     *)
(* (airflow/dags/zeta_workflow.py) as it is executed by Airflow 2, the     *)
(* retry schedule its default_args select, the polling loop of            *)
(* ModelDeploymentSensor (airflow/plugins/sensors), the requests of        *)
(* ModelRegistryHook (airflow/plugins/hooks), concurrent calls of its      *)
(* update_model_version, successive runs under max_active_runs, and the    *)
(* request retries of ZetaReticulaClient (test_attention_api.py).          *)
(*                                                                         *)
(* Task states carry Airflow's names.  The specification's vocabulary maps *)
(* onto them as follows:                                                   *)
(*   Pending   = "none"            Running = "running"                     *)
(*   Succeeded = "success"         Failed  = "failed"                      *)
(*   Skipped   = "upstream_failed" (dependency-failure propagation)        *)
(*   waiting for a retry = "up_for_retry"                                  *)
(* Airflow has no task state for a timeout: a task that exceeds            *)
(* execution_timeout raises AirflowTaskTimeout and is handled like every   *)
(* other failed attempt.                                                   *)
(***************************************************************************)
EXTENDS Integers, Sequences, FiniteSets, TLC

VARIABLES
    state,        \* task_id -> Airflow task-instance state
    try_number,   \* task_id -> number of attempts started so far
    last_error,   \* task_id -> kind of the error that ended the latest failed attempt
    xcom,         \* <<task_id, key>> -> value pushed in this run (NoValue: nothing)
    message,      \* the message send_notification logged and returned (NoValue: none)
    rendered,     \* task_id -> the model version in the cmds / env_vars its latest
                  \*            attempt was invoked with (NoValue: none)
    mv_writes,    \* pushes of (get_latest_model, model_version) made in this run
    faults,       \* what the environment makes fail in this run (see FaultScenarios)
    \* ---- one execution of ModelDeploymentSensor.execute ----
    sn_pc,          \* position in execute: "poke", "check", "sleep", "done"
    sn_timeout,     \* self.timeout
    sn_retry_delay, \* self.retry_delay
    sn_elapsed,     \* time.time() - started_at
    sn_pokes,       \* calls of self.poke made so far
    sn_sleeps,      \* calls of time.sleep made so far
    sn_outcome,     \* "none" | "ready" (return True) | "timeout" | "error" (poke raised)
                    \* | "killed" (the task process was terminated)
    sn_pod,         \* what super().poke(context) did in the latest poke ("none": no poke yet)
    sn_health,      \* what _check_model_health() returned in the latest poke
                    \* ("not_evaluated": it was not called)
    sn_result,      \* what the latest poke did: "true" | "false" | "raise" ("none": no poke yet)
    sn_cancelled,   \* the run was cancelled while execute was in progress
    \* ---- the retry schedule of one permanently failing task instance ----
    bk_state,       \* "running" | "up_for_retry" | "failed"
    bk_try_number,  \* attempts started so far
    bk_waits,       \* bk_waits[k]: the delay (minutes) scheduled before the k-th retry
    \* ---- calls of a ModelRegistryHook ----
    hk_pc,          \* "idle" | "get" | "write" | "done": what the current call does next
    hk_op,          \* the method called ("none": no call yet)
    hk_calls,       \* calls made so far
    hk_gets,        \* GET requests the current call has sent
    hk_writes,      \* POST / PATCH requests the current call has sent
    hk_status,      \* status of the latest response (NoResponse: none)
    hk_outcome,     \* "none" | "returned" | the exception the call raised
    \* ---- update_model_version calls of several clients on one model version ----
    rg_metadata,    \* the metadata the registry stores for the model version
    up_pc,          \* client -> "idle" | "get" | "patch" | "done"
    up_arg,         \* client -> the metadata argument of its call
    up_get,         \* client -> how its GET ended ("none": not yet)
    up_current,     \* client -> the metadata of `current`, as its GET returned it
    up_patches,     \* client -> PATCH requests its call has sent
    up_outcome,     \* client -> "none" | "returned" | the exception its call raised
    \* ---- the DAG runs the scheduler creates, one per schedule interval ----
    rn_state,       \* run -> "none" | "queued" | "running" | "success" | "failed"
    rn_task,        \* run -> (task_id -> task-instance state)
    rn_try,         \* run -> try_number of its task that is running or up_for_retry
    \* ---- calls of a ZetaReticulaClient (test_attention_api.py) ----
    cl_verify,      \* the verify_cert argument the client was constructed with
    cl_pc,          \* "idle" | "send" | "done"
    cl_op,          \* the method called ("none": no call yet)
    cl_calls,       \* calls made so far
    cl_sent,        \* times the request of the current call was sent
    cl_status,      \* status of the latest response (NoResponse: none)
    cl_outcome      \* "none" | "returned" | the exception the method caught

pipeVars == <<state, try_number, last_error, xcom, message, rendered, mv_writes,
             faults>>
sensorVars == <<sn_pc, sn_timeout, sn_retry_delay, sn_elapsed, sn_pokes, sn_sleeps,
                sn_outcome, sn_pod, sn_health, sn_result, sn_cancelled>>
backoffVars == <<bk_state, bk_try_number, bk_waits>>
hookVars == <<hk_pc, hk_op, hk_calls, hk_gets, hk_writes, hk_status, hk_outcome>>
updateVars == <<rg_metadata, up_pc, up_arg, up_get, up_current, up_patches, up_outcome>>
runVars == <<rn_state, rn_task, rn_try>>
clientVars == <<cl_verify, cl_pc, cl_op, cl_calls, cl_sent, cl_status, cl_outcome>>
vars == <<pipeVars, sensorVars, backoffVars, hookVars, updateVars, runVars, clientVars>>

NoValue == "<none>"

(***************************************************************************)
(* The DAG: tasks and dependencies                                         *)
(***************************************************************************)
TaskIds ==
    {"start_pipeline", "check_model_registry", "get_latest_model", "ingest_model",
     "quantize_model", "validate_model", "deploy_model", "test_model",
     "send_notification"}

\* The operators in the order the DAG file declares them (dag.task_ids).
task_ids ==
    <<"start_pipeline", "check_model_registry", "get_latest_model", "ingest_model",
      "quantize_model", "validate_model", "deploy_model", "test_model",
      "send_notification">>

\* Faulty variant: the notification is made a predecessor of the start marker.
Edges_with_back_edge ==
    {<<"start_pipeline", "check_model_registry">>,
     <<"check_model_registry", "get_latest_model">>,
     <<"get_latest_model", "ingest_model">>,
     <<"ingest_model", "quantize_model">>,
     <<"quantize_model", "validate_model">>,
     <<"validate_model", "deploy_model">>,
     <<"deploy_model", "test_model">>,
     <<"test_model", "send_notification">>,
     <<"send_notification", "start_pipeline">>}

\* Faulty variant: test_model is made to follow validate_model, beside deploy_model.
Edges_with_fork ==
    {<<"start_pipeline", "check_model_registry">>,
     <<"check_model_registry", "get_latest_model">>,
     <<"get_latest_model", "ingest_model">>,
     <<"ingest_model", "quantize_model">>,
     <<"quantize_model", "validate_model">>,
     <<"validate_model", "deploy_model">>,
     <<"validate_model", "test_model">>,
     <<"test_model", "send_notification">>}

\* start_pipeline >> check_registry >> get_model_task
\* get_model_task >> ingest_model >> quantize_model >> validate_model
\* validate_model >> deploy_model >> test_model >> notification_task
Edges ==
    {<<"start_pipeline", "check_model_registry">>,
     <<"check_model_registry", "get_latest_model">>,
     <<"get_latest_model", "ingest_model">>,
     <<"ingest_model", "quantize_model">>,
     <<"quantize_model", "validate_model">>,
     <<"validate_model", "deploy_model">>,
     <<"deploy_model", "test_model">>,
     <<"test_model", "send_notification">>}

upstream_task_ids(t) == {u \in TaskIds : <<u, t>> \in Edges}

\* The tasks from which t is reached along the edges E (its transitive upstream).
RECURSIVE upstream_closure(_, _)
upstream_closure(E, S) ==
    LET N == S \cup {e[1] : e \in {f \in E : f[2] \in S}}
    IN  IF N = S THEN S ELSE upstream_closure(E, N)

transitive_upstream(E, t) == upstream_closure(E, {e[1] : e \in {f \in E : f[2] = t}})

\* example_dag: the operators in declaration order, and
\* print_hello >> print_time_task >> list_dags
example_task_ids == <<"print_hello", "print_time", "list_dags">>
ExampleEdges == {<<"print_hello", "print_time">>, <<"print_time", "list_dags">>}

\* A workflow graph with declared task ids ids (a sequence) and edges E is well
\* formed: no id is declared twice, every edge joins declared tasks, and no
\* task is its own transitive predecessor.
unique_ids(ids) == \A i, j \in DOMAIN ids : ids[i] = ids[j] => i = j
no_dangling_edge(ids, E) ==
    \A e \in E : \A k \in {1, 2} : \E i \in DOMAIN ids : ids[i] = e[k]
acyclic(ids, E) == \A i \in DOMAIN ids : ids[i] \notin transitive_upstream(E, ids[i])

\* Operator class of each task.
DummyTasks  == {"start_pipeline"}
SensorTasks == {"check_model_registry"}
PythonTasks == {"get_latest_model", "send_notification"}
PodTasks    == {"ingest_model", "quantize_model", "validate_model", "deploy_model",
                "test_model"}

\* default_args["retries"]: the number of RE-tries Airflow grants after the first attempt.
retries == 3

States == {"none", "running", "up_for_retry", "success", "failed", "upstream_failed"}
FinishedStates == {"success", "failed", "upstream_failed"}
ErrorKinds == {"job_error", "task_timeout", "sensor_timeout"}

XComKeys == {"model_version", "return_value"}
\* latest_model = "zeta-model-v1.0.0"
latest_model == "zeta-model-v1.0.0"

(***************************************************************************)
(* XCom (the "context store" of the run)                                   *)
(***************************************************************************)
XComSlots == TaskIds \X XComKeys

\* ti.xcom_push(key=k, value=v): set, replacing whatever the slot held.
xcom_push(x, t, k, v) == [x EXCEPT ![<<t, k>>] = v]

\* ti.xcom_pull(task_ids=t, key=k): the value, or None when nothing was pushed.
xcom_pull(x, t, k) == x[<<t, k>>]

\* Faulty variant: the entries of every task are cleared.
clear_xcom_data_of_all(x, t) == [s \in XComSlots |-> NoValue]

\* Airflow clears a task instance's XCom entries when an attempt of it starts.
clear_xcom_data(x, t) == [s \in XComSlots |-> IF s[1] = t THEN NoValue ELSE x[s]]

(***************************************************************************)
(* Scheduling: the default trigger rule (all_success) of every task        *)
(***************************************************************************)
\* Faulty variant: the rule all_done (run once every upstream task has finished).
trigger_rule_met_all_done(st, t) ==
    \A u \in upstream_task_ids(t) : st[u] \in FinishedStates

\* No task of the DAG sets trigger_rule, so each runs under all_success:
\* runnable once every upstream task is "success".
trigger_rule_met(st, t) == \A u \in upstream_task_ids(t) : st[u] = "success"

\* Faulty variant: only a directly failed upstream task counts, upstream_failed does not.
trigger_rule_failed_direct(st, t) ==
    \E u \in upstream_task_ids(t) : st[u] = "failed"

\* Under all_success a task whose upstream failed (or was itself marked
\* upstream_failed) is marked upstream_failed without being run.
trigger_rule_failed(st, t) ==
    \E u \in upstream_task_ids(t) : st[u] \in {"failed", "upstream_failed"}

Min(a, b) == IF a <= b THEN a ELSE b

\* default_args["retry_delay"] and default_args["max_retry_delay"], in minutes.
retry_delay == 5
max_retry_delay == 30

\* Largest value drawn for the hash Airflow mixes into a backoff delay.
MaxHash == 19

\* Faulty variant: max_retry_delay is not applied.
next_retry_delay_uncapped(k, ti_hash) ==
    LET min_backoff == retry_delay * 2^(k - 1)
    IN  min_backoff + (ti_hash % min_backoff)

\* The delay before the retry that follows failed attempt number k, with
\* retry_exponential_backoff = True (Airflow's TaskInstance.next_retry_datetime):
\*   min_backoff = retry_delay * 2^(k-1)
\*   modded_hash = min_backoff + ti_hash % min_backoff
\*   delay       = min(modded_hash, max_retry_delay)
\* ti_hash is a SHA-1 of dag id, task id, logical date and try number.
\* Airflow computes in seconds; here the unit is the minute, so the jitter
\* ti_hash % min_backoff takes whole minutes only.
next_retry_delay(k, ti_hash) ==
    LET min_backoff == retry_delay * 2^(k - 1)
        modded_hash == min_backoff + (ti_hash % min_backoff)
    IN  Min(modded_hash, max_retry_delay)

\* Airflow's TaskInstance.is_eligible_to_retry after attempt number n failed:
\* task.retries and try_number <= max_tries, with max_tries = retries.
is_eligible_to_retry(n) == retries > 0 /\ n <= retries

(***************************************************************************)
(* Task callables                                                          *)
(***************************************************************************)
\* Faulty variant: the value pushed is not the value returned.
get_latest_model_pushes_other(x) ==
    xcom_push(x, "get_latest_model", "model_version", "test-version")

\* get_latest_model: pushes latest_model under model_version (and returns the
\* same value, which the PythonOperator then pushes under return_value).
get_latest_model(x) == xcom_push(x, "get_latest_model", "model_version", latest_model)

\* Tasks whose cmds or env_vars hold the Jinja template
\* "{{ ti.xcom_pull(task_ids='get_latest_model', key='model_version') }}".
TemplatedTasks == {"ingest_model", "quantize_model", "validate_model", "deploy_model"}

\* test_model builds its argument with an f-string, in which "{{" and "}}" are
\* the escapes of single braces: the operator receives this text, which holds
\* no Jinja expression and is passed to the pod as it is.
test_model_arg == "{ ti.xcom_pull(task_ids='get_latest_model', key='model_version') }"

\* Tasks whose definition refers to the model version.
VersionedTasks == TemplatedTasks \cup {"test_model"}

\* The model version in the rendered cmds / env_vars of an attempt of t:
\* templates are rendered against XCom when the attempt starts.
render_model_version(x, t) ==
    IF t \in TemplatedTasks THEN xcom_pull(x, "get_latest_model", "model_version")
    ELSE IF t = "test_model" THEN test_model_arg
    ELSE NoValue

\* Faulty variant: the version is pulled from ingest_model, which pushes nothing.
send_notification_pulls_ingest(st, x) ==
    LET failed_tasks == {t \in TaskIds : st[t] = "failed"}
    IN  IF failed_tasks # {}
        THEN [outcome |-> "Pipeline failed", failed_tasks |-> failed_tasks,
              model_version |-> NoValue]
        ELSE [outcome |-> "Pipeline completed successfully", failed_tasks |-> {},
              model_version |-> xcom_pull(x, "ingest_model", "model_version")]

\* send_notification: the message as its parts.  failed_tasks holds the ids of
\* the task instances in state 'failed'; the failure text carries the ids only.
send_notification(st, x) ==
    LET failed_tasks == {t \in TaskIds : st[t] = "failed"}
    IN  IF failed_tasks # {}
        THEN [outcome |-> "Pipeline failed", failed_tasks |-> failed_tasks,
              model_version |-> NoValue]
        ELSE [outcome |-> "Pipeline completed successfully", failed_tasks |-> {},
              model_version |-> xcom_pull(x, "get_latest_model", "model_version")]

\* Nothing logged or returned yet.
NoMessage == [outcome |-> NoValue, failed_tasks |-> {}, model_version |-> NoValue]

(***************************************************************************)
(* The run of the DAG                                                      *)
(***************************************************************************)
\* The runs explored: one in which external jobs may fail (pods exit non-zero
\* or run past execution_timeout, the registry health check errors or stays
\* down), and one in which python callables may be stopped at
\* execution_timeout.  The two kinds of fault are not mixed within one run.
FaultScenarios == {"external_jobs", "python_callables"}

SensorIdle ==
    /\ sn_pc = "done" /\ sn_timeout = 0 /\ sn_retry_delay = 1 /\ sn_elapsed = 0
    /\ sn_pokes = 0 /\ sn_sleeps = 0 /\ sn_outcome = "none" /\ sn_pod = "none"
    /\ sn_health = "not_evaluated" /\ sn_result = "none" /\ sn_cancelled = FALSE

BackoffIdle == bk_state = "failed" /\ bk_try_number = 0 /\ bk_waits = << >>

\* The connection failed: no response came back.
NoResponse == 0

HookIdle ==
    /\ hk_pc = "idle" /\ hk_op = "none" /\ hk_calls = 0 /\ hk_gets = 0
    /\ hk_writes = 0 /\ hk_status = NoResponse /\ hk_outcome = "none"

\* The clients that call update_model_version on the same model version (task
\* processes, each with its own hook), and the metadata they deal with: a
\* dict over Keys, NoValue standing for an absent key.
Clients == {"c1", "c2"}
Keys == {"accuracy", "owner"}
Vals == {"v1", "v2"}
Metadata == [Keys -> Vals \cup {NoValue}]
EmptyMetadata == [k \in Keys |-> NoValue]

\* metadata=None: the argument was not given.
NoArg == [given |-> FALSE, md |-> EmptyMetadata]

UpdateIdle ==
    /\ rg_metadata = EmptyMetadata
    /\ up_pc = [c \in Clients |-> "idle"]
    /\ up_arg = [c \in Clients |-> NoArg]
    /\ up_get = [c \in Clients |-> "none"]
    /\ up_current = [c \in Clients |-> EmptyMetadata]
    /\ up_patches = [c \in Clients |-> 0]
    /\ up_outcome = [c \in Clients |-> "none"]

\* DAG runs considered (run r is the r-th by logical date).
MaxRuns == 2
Runs == 1..MaxRuns

RunsIdle ==
    /\ rn_state = [r \in Runs |-> "none"]
    /\ rn_task = [r \in Runs |-> [t \in TaskIds |-> "none"]]
    /\ rn_try = [r \in Runs |-> 0]

\* No ZetaReticulaClient call is made (the client with the default verify_cert).
ClientIdle ==
    /\ cl_verify = FALSE /\ cl_pc = "idle" /\ cl_op = "none" /\ cl_calls = 0
    /\ cl_sent = 0 /\ cl_status = NoResponse /\ cl_outcome = "none"

PipeInit ==
    /\ state = [t \in TaskIds |-> "none"]
    /\ try_number = [t \in TaskIds |-> 0]
    /\ last_error = [t \in TaskIds |-> NoValue]
    /\ xcom = [s \in XComSlots |-> NoValue]
    /\ message = NoMessage
    /\ rendered = [t \in TaskIds |-> NoValue]
    /\ mv_writes = 0
    /\ faults \in FaultScenarios

Init == PipeInit /\ SensorIdle /\ BackoffIdle /\ HookIdle /\ UpdateIdle /\ RunsIdle /\ ClientIdle

\* The scheduler starts the first attempt of a task whose trigger rule is met.
StartTask(t) ==
    /\ state[t] = "none"
    /\ trigger_rule_met(state, t)
    /\ state' = [state EXCEPT ![t] = "running"]
    /\ try_number' = [try_number EXCEPT ![t] = @ + 1]
    /\ xcom' = clear_xcom_data(xcom, t)
    /\ rendered' = [rendered EXCEPT ![t] = render_model_version(xcom', t)]
    /\ UNCHANGED <<last_error, message, mv_writes, faults>>
    /\ UNCHANGED <<sensorVars, backoffVars, hookVars, updateVars, runVars, clientVars>>

\* The scheduler marks a task whose upstream failed, without running it.
MarkUpstreamFailed(t) ==
    /\ state[t] = "none"
    /\ trigger_rule_failed(state, t)
    /\ state' = [state EXCEPT ![t] = "upstream_failed"]
    /\ UNCHANGED <<try_number, last_error, xcom, message, rendered, mv_writes, faults>>
    /\ UNCHANGED <<sensorVars, backoffVars, hookVars, updateVars, runVars, clientVars>>

\* The attempt returns: a pod exits 0, the HttpSensor's response_check holds,
\* a python callable returns (its effects on XCom and the log included).
\* The message send_notification returns is kept whole in `message`; its
\* return_value entry in XCom records the outcome text.
TaskSucceeds(t) ==
    /\ state[t] = "running"
    /\ t = "get_latest_model"
          => xcom_pull(xcom, "get_latest_model", "model_version") # NoValue
    /\ state' = [state EXCEPT ![t] = "success"]
    /\ xcom' = IF t = "get_latest_model"
               THEN xcom_push(xcom, t, "return_value", latest_model)
               ELSE IF t = "send_notification"
                    THEN xcom_push(xcom, t, "return_value",
                                   send_notification(state, xcom).outcome)
                    ELSE xcom
    /\ message' = IF t = "send_notification" THEN send_notification(state, xcom)
                  ELSE message
    /\ UNCHANGED <<try_number, last_error, rendered, mv_writes, faults>>
    /\ UNCHANGED <<sensorVars, backoffVars, hookVars, updateVars, runVars, clientVars>>

\* The running get_latest_model executes its xcom_push.
PushModelVersion ==
    /\ state["get_latest_model"] = "running"
    /\ xcom_pull(xcom, "get_latest_model", "model_version") = NoValue
    /\ xcom' = get_latest_model(xcom)
    /\ mv_writes' = mv_writes + 1
    /\ UNCHANGED <<state, try_number, last_error, message, rendered, faults>>
    /\ UNCHANGED <<sensorVars, backoffVars, hookVars, updateVars, runVars, clientVars>>

\* The attempt raises: a pod exits non-zero or the sensor's request errors
\* ("job_error"), or a pod or a python callable is stopped at
\* execution_timeout ("task_timeout", raised as AirflowTaskTimeout).  Airflow's
\* handle_failure treats both alike: the task waits for a retry while it is
\* eligible, and is failed otherwise.
TaskFails(t, kind) ==
    /\ state[t] = "running"
    /\ \/ faults = "external_jobs" /\ t \in PodTasks
             /\ kind \in {"job_error", "task_timeout"}
       \/ faults = "external_jobs" /\ t \in SensorTasks /\ kind = "job_error"
       \/ faults = "python_callables" /\ t \in PythonTasks /\ kind = "task_timeout"
    /\ state' = [state EXCEPT ![t] = IF is_eligible_to_retry(try_number[t])
                                     THEN "up_for_retry" ELSE "failed"]
    /\ last_error' = [last_error EXCEPT ![t] = kind]
    /\ UNCHANGED <<try_number, xcom, message, rendered, mv_writes, faults>>
    /\ UNCHANGED <<sensorVars, backoffVars, hookVars, updateVars, runVars, clientVars>>

\* check_model_registry polls for longer than its timeout=300:
\* AirflowSensorTimeout fails the task at once, whatever retries are left.
SensorTimesOut(t) ==
    /\ t \in SensorTasks
    /\ faults = "external_jobs"
    /\ state[t] = "running"
    /\ state' = [state EXCEPT ![t] = "failed"]
    /\ last_error' = [last_error EXCEPT ![t] = "sensor_timeout"]
    /\ UNCHANGED <<try_number, xcom, message, rendered, mv_writes, faults>>
    /\ UNCHANGED <<sensorVars, backoffVars, hookVars, updateVars, runVars, clientVars>>

\* Faulty variant: a task that failed for good is run once more.
RetryTask_reruns_failed(t) ==
    /\ \/ state[t] = "up_for_retry"
       \/ state[t] = "failed" /\ try_number[t] <= retries + 1
    /\ state' = [state EXCEPT ![t] = "running"]
    /\ try_number' = [try_number EXCEPT ![t] = @ + 1]
    /\ xcom' = clear_xcom_data(xcom, t)
    /\ rendered' = [rendered EXCEPT ![t] = render_model_version(xcom', t)]
    /\ UNCHANGED <<last_error, message, mv_writes, faults>>
    /\ UNCHANGED <<sensorVars, backoffVars, hookVars, updateVars, runVars, clientVars>>

\* The retry delay is over: the next attempt starts.
RetryTask(t) ==
    /\ state[t] = "up_for_retry"
    /\ state' = [state EXCEPT ![t] = "running"]
    /\ try_number' = [try_number EXCEPT ![t] = @ + 1]
    /\ xcom' = clear_xcom_data(xcom, t)
    /\ rendered' = [rendered EXCEPT ![t] = render_model_version(xcom', t)]
    /\ UNCHANGED <<last_error, message, mv_writes, faults>>
    /\ UNCHANGED <<sensorVars, backoffVars, hookVars, updateVars, runVars, clientVars>>

Next ==
    \/ PushModelVersion
    \/ \E t \in TaskIds :
        \/ StartTask(t)
        \/ MarkUpstreamFailed(t)
        \/ TaskSucceeds(t)
        \/ \E kind \in ErrorKinds : TaskFails(t, kind)
        \/ SensorTimesOut(t)
        \/ RetryTask(t)

Spec == Init /\ [][Next]_vars

\* Every task instance of the run is in a finished state.
RunComplete == \A t \in TaskIds : state[t] \in FinishedStates

(***************************************************************************)
(* The retry schedule of one task instance whose job fails on every        *)
(* attempt, under default_args                                             *)
(***************************************************************************)
BackoffInit ==
    /\ PipeInit /\ SensorIdle /\ HookIdle /\ UpdateIdle /\ RunsIdle /\ ClientIdle
    /\ bk_state = "running" /\ bk_try_number = 1 /\ bk_waits = << >>

\* The running attempt fails: handle_failure schedules a retry while the task
\* is eligible, and fails it for good otherwise.
AttemptFails(ti_hash) ==
    /\ bk_state = "running"
    /\ IF is_eligible_to_retry(bk_try_number)
       THEN /\ bk_state' = "up_for_retry"
            /\ bk_waits' = Append(bk_waits, next_retry_delay(bk_try_number, ti_hash))
       ELSE /\ bk_state' = "failed"
            /\ bk_waits' = bk_waits
    /\ UNCHANGED <<bk_try_number, pipeVars, sensorVars, hookVars, updateVars, runVars, clientVars>>

\* The scheduled delay has passed: the next attempt starts.
AttemptRetried ==
    /\ bk_state = "up_for_retry"
    /\ bk_state' = "running"
    /\ bk_try_number' = bk_try_number + 1
    /\ UNCHANGED <<bk_waits, pipeVars, sensorVars, hookVars, updateVars, runVars, clientVars>>

BackoffNext ==
    \/ \E ti_hash \in 0..MaxHash : AttemptFails(ti_hash)
    \/ AttemptRetried

SpecBackoff == BackoffInit /\ [][BackoffNext]_vars

(***************************************************************************)
(* ModelDeploymentSensor                                                   *)
(***************************************************************************)
\* Bounds of the inputs of one execution (time in units of the clock).
MaxTimeout == 3
MaxRetryDelay == 2
MaxPokeTime == 1

PodChecks == {"ready", "not_ready", "raise"}       \* super().poke(context)
HealthChecks == {"healthy", "unhealthy"}           \* self._check_model_health()

\* _check_model_health is called only inside "if is_ready:".
health_evaluated(pod, health) == IF pod = "ready" THEN health ELSE "not_evaluated"

\* Faulty variant: a failed health check of a ready pod is raised as an error.
poke_raises_on_unhealthy(pod, health) ==
    IF pod = "raise" THEN "raise"
    ELSE IF pod = "ready" THEN (IF health = "healthy" THEN "true" ELSE "raise")
    ELSE "false"

\* Faulty variant: an exception of the pod check is swallowed and reported as not ready.
poke_swallows_error(pod, health) ==
    IF pod = "ready" /\ health = "healthy" THEN "true" ELSE "false"

\* poke: True only when the pod is ready and the health check passes; False
\* when either is not; an exception of the pod check is logged and re-raised.
\* The health check is evaluated only for a ready pod.
poke(pod, health) ==
    IF pod = "raise" THEN "raise"
    ELSE IF pod = "ready" /\ health = "healthy" THEN "true"
    ELSE "false"

\* Faulty variant: the timeout is raised only after twice the time allowed.
timeout_exceeded_late(elapsed, timeout) == elapsed > 2 * timeout + 1

\* (time.time() - started_at) > self.timeout
timeout_exceeded(elapsed, timeout) == elapsed > timeout

SensorInit ==
    /\ PipeInit /\ BackoffIdle /\ HookIdle /\ UpdateIdle /\ RunsIdle /\ ClientIdle
    /\ sn_timeout \in 0..MaxTimeout
    /\ sn_retry_delay \in 1..MaxRetryDelay
    /\ sn_pc = "poke" /\ sn_elapsed = 0 /\ sn_pokes = 0 /\ sn_sleeps = 0
    /\ sn_outcome = "none" /\ sn_pod = "none" /\ sn_cancelled = FALSE
    /\ sn_health = "not_evaluated" /\ sn_result = "none"

\* Faulty variant: a true poke does not return; the loop goes on to the timeout check.
SensorPoke_no_return(pod, health, d) ==
    /\ sn_pc = "poke"
    /\ sn_pokes' = sn_pokes + 1
    /\ sn_pod' = pod
    /\ sn_health' = health_evaluated(pod, health)
    /\ sn_result' = poke(pod, health)
    /\ sn_elapsed' = sn_elapsed + d
    /\ sn_outcome' = CASE poke(pod, health) = "true" -> "ready"
                      [] poke(pod, health) = "raise" -> "error"
                      [] OTHER -> "none"
    /\ sn_pc' = IF poke(pod, health) = "raise" THEN "done" ELSE "check"
    /\ UNCHANGED <<sn_timeout, sn_retry_delay, sn_sleeps, sn_cancelled,
                   pipeVars, backoffVars, hookVars, updateVars, runVars, clientVars>>

\* if self.poke(context): return True  -- the call takes d units of time; an
\* exception of poke leaves execute at once.
SensorPoke(pod, health, d) ==
    /\ sn_pc = "poke"
    /\ sn_pokes' = sn_pokes + 1
    /\ sn_pod' = pod
    /\ sn_health' = health_evaluated(pod, health)
    /\ sn_result' = poke(pod, health)
    /\ sn_elapsed' = sn_elapsed + d
    /\ sn_outcome' = CASE poke(pod, health) = "true" -> "ready"
                      [] poke(pod, health) = "raise" -> "error"
                      [] OTHER -> "none"
    /\ sn_pc' = IF poke(pod, health) = "false" THEN "check" ELSE "done"
    /\ UNCHANGED <<sn_timeout, sn_retry_delay, sn_sleeps, sn_cancelled,
                   pipeVars, backoffVars, hookVars, updateVars, runVars, clientVars>>

\* if (time.time() - started_at) > self.timeout: raise AirflowException(...)
SensorCheckTimeout ==
    /\ sn_pc = "check"
    /\ IF timeout_exceeded(sn_elapsed, sn_timeout)
       THEN sn_pc' = "done" /\ sn_outcome' = "timeout"
       ELSE sn_pc' = "sleep" /\ sn_outcome' = sn_outcome
    /\ UNCHANGED <<sn_timeout, sn_retry_delay, sn_elapsed, sn_pokes, sn_sleeps,
                   sn_pod, sn_health, sn_result, sn_cancelled, pipeVars, backoffVars,
                   hookVars, updateVars, runVars, clientVars>>

\* time.sleep(self.retry_delay), then the loop starts over.
SensorSleep ==
    /\ sn_pc = "sleep"
    /\ sn_sleeps' = sn_sleeps + 1
    /\ sn_elapsed' = sn_elapsed + sn_retry_delay
    /\ sn_pc' = "poke"
    /\ UNCHANGED <<sn_timeout, sn_retry_delay, sn_pokes, sn_outcome, sn_pod,
                   sn_health, sn_result, sn_cancelled, pipeVars, backoffVars,
                   hookVars, updateVars, runVars, clientVars>>

\* The run is cancelled while execute is in progress.  execute reads no
\* cancellation request: the loop tests only the result of poke and the elapsed
\* time, the wait is a plain time.sleep, and the sensor defines no on_kill.
SensorCancel ==
    /\ sn_pc # "done"
    /\ ~sn_cancelled
    /\ sn_cancelled' = TRUE
    /\ UNCHANGED <<sn_pc, sn_timeout, sn_retry_delay, sn_elapsed, sn_pokes, sn_sleeps,
                   sn_outcome, sn_pod, sn_health, sn_result, pipeVars, backoffVars,
                   hookVars, updateVars, runVars, clientVars>>

\* Airflow's task runner ends the cancelled attempt from outside: SIGTERM
\* reaches the task process and its handler raises AirflowException wherever
\* execute is (in poke or in time.sleep).  Until it arrives the loop goes on.
SensorKilled ==
    /\ sn_cancelled
    /\ sn_pc # "done"
    /\ sn_pc' = "done"
    /\ sn_outcome' = "killed"
    /\ UNCHANGED <<sn_timeout, sn_retry_delay, sn_elapsed, sn_pokes, sn_sleeps,
                   sn_pod, sn_health, sn_result, sn_cancelled, pipeVars, backoffVars,
                   hookVars, updateVars, runVars, clientVars>>

SensorNext ==
    \/ \E pod \in PodChecks, health \in HealthChecks, d \in 0..MaxPokeTime :
           SensorPoke(pod, health, d)
    \/ SensorCheckTimeout
    \/ SensorSleep
    \/ SensorCancel
    \/ SensorKilled

SpecSensor == SensorInit /\ [][SensorNext]_vars

\* execute is sequential code running in the task's process: as long as it has
\* not returned or raised, its next statement is executed.
SensorStep ==
    \/ \E pod \in PodChecks, health \in HealthChecks, d \in 0..MaxPokeTime :
           SensorPoke(pod, health, d)
    \/ SensorCheckTimeout
    \/ SensorSleep

SpecSensorLive == SpecSensor /\ WF_vars(SensorStep)

(***************************************************************************)
(* ModelRegistryHook                                                       *)
(***************************************************************************)
\* Calls made on one hook in a row.
MaxCalls == 2

\* What the registry may answer; NoResponse stands for a request that raised a
\* connection error.
Responses == {200, 201, 400, 404, 500, 503, NoResponse}

LookupOps == {"get_model_versions", "get_latest_version", "get_model_version"}
WriteOps == {"register_model_version", "set_model_stage", "update_model_version"}
HookOps == LookupOps \cup WriteOps

\* response.raise_for_status() raises HTTPError for a 4xx or 5xx status.
raises_for_status(status) == status >= 400 /\ status < 600

\* session.get / post / patch followed by raise_for_status, inside
\* "except requests.exceptions.RequestException: log; raise": the call returns
\* the body, or ends with the exception of the request.  The session is a
\* plain requests.Session: nothing re-sends a request.
request_result(resp) ==
    IF resp = NoResponse THEN "ConnectionError"
    ELSE IF raises_for_status(resp) THEN "HTTPError"
    ELSE "returned"

\* get_model_version: as above, except that a 404 reaches
\* "raise AirflowException(...)"; the module does not import AirflowException,
\* so evaluating the name raises NameError.
get_model_version(resp) ==
    IF resp = NoResponse THEN "ConnectionError"
    ELSE IF raises_for_status(resp)
         THEN IF resp = 404 THEN "NameError" ELSE "HTTPError"
    ELSE "returned"

\* The caller calls a method of the hook.  The lookups and
\* update_model_version (which reads the current version first) start with a
\* GET, register_model_version and set_model_stage with a POST.
HookCall(op) ==
    /\ hk_pc \in {"idle", "done"}
    /\ hk_calls < MaxCalls
    /\ hk_calls' = hk_calls + 1
    /\ hk_op' = op
    /\ hk_pc' = IF op \in LookupOps \cup {"update_model_version"} THEN "get" ELSE "write"
    /\ hk_gets' = 0 /\ hk_writes' = 0
    /\ hk_status' = NoResponse /\ hk_outcome' = "none"
    /\ UNCHANGED <<pipeVars, sensorVars, backoffVars, updateVars, runVars, clientVars>>

\* The GET of the call is sent and answered.
HookGet(resp) ==
    /\ hk_pc = "get"
    /\ hk_gets' = hk_gets + 1
    /\ hk_status' = resp
    /\ LET result == IF hk_op \in {"get_model_version", "update_model_version"}
                     THEN get_model_version(resp) ELSE request_result(resp)
       IN  IF hk_op = "update_model_version" /\ result = "returned"
           THEN hk_pc' = "write" /\ hk_outcome' = "none"
           ELSE hk_pc' = "done" /\ hk_outcome' = result
    /\ UNCHANGED <<hk_op, hk_calls, hk_writes, pipeVars, sensorVars, backoffVars, updateVars, runVars, clientVars>>

\* Faulty variant: a POST / PATCH answered 5xx or not at all is sent again.
HookWrite_resends(resp) ==
    /\ hk_pc = "write"
    /\ hk_writes' = hk_writes + 1
    /\ hk_status' = resp
    /\ IF resp = NoResponse \/ resp >= 500
       THEN hk_pc' = "write" /\ hk_outcome' = "none"
       ELSE hk_pc' = "done" /\ hk_outcome' = request_result(resp)
    /\ UNCHANGED <<hk_op, hk_calls, hk_gets, pipeVars, sensorVars, backoffVars, updateVars, runVars, clientVars>>

\* The POST (register_model_version, set_model_stage) or PATCH
\* (update_model_version) of the call is sent and answered.
HookWrite(resp) ==
    /\ hk_pc = "write"
    /\ hk_writes' = hk_writes + 1
    /\ hk_status' = resp
    /\ hk_pc' = "done"
    /\ hk_outcome' = request_result(resp)
    /\ UNCHANGED <<hk_op, hk_calls, hk_gets, pipeVars, sensorVars, backoffVars, updateVars, runVars, clientVars>>

HookNext ==
    \/ \E op \in HookOps : HookCall(op)
    \/ \E resp \in Responses : HookGet(resp)
    \/ \E resp \in Responses : HookWrite(resp)

SpecRegistry == Init /\ [][HookNext]_vars

(***************************************************************************)
(* update_model_version called by concurrent clients                       *)
(***************************************************************************)
\* The metadata arguments tried: none, an empty dict, and the dicts of one key.
MetadataArgs ==
    {NoArg}
    \cup {[given |-> TRUE, md |-> m] :
             m \in {f \in Metadata : Cardinality({k \in Keys : f[k] # NoValue}) <= 1}}

\* Faulty variant: the payload is the argument alone.
dict_update_drops_current(current_metadata, metadata) == metadata

\* current_metadata.update(metadata): the keys of metadata are set, the other
\* keys of current_metadata stay.
dict_update(current_metadata, metadata) ==
    [k \in Keys |-> IF metadata[k] # NoValue THEN metadata[k] ELSE current_metadata[k]]

UpdateInit ==
    /\ PipeInit /\ SensorIdle /\ BackoffIdle /\ HookIdle /\ RunsIdle /\ ClientIdle
    /\ rg_metadata \in Metadata
    /\ up_pc = [c \in Clients |-> "idle"]
    /\ up_arg = [c \in Clients |-> NoArg]
    /\ up_get = [c \in Clients |-> "none"]
    /\ up_current = [c \in Clients |-> EmptyMetadata]
    /\ up_patches = [c \in Clients |-> 0]
    /\ up_outcome = [c \in Clients |-> "none"]

\* Client c calls update_model_version(model, version, metadata=arg).
UpdateCall(c, arg) ==
    /\ up_pc[c] = "idle"
    /\ up_pc' = [up_pc EXCEPT ![c] = "get"]
    /\ up_arg' = [up_arg EXCEPT ![c] = arg]
    /\ UNCHANGED <<rg_metadata, up_get, up_current, up_patches, up_outcome>>
    /\ UNCHANGED <<pipeVars, sensorVars, backoffVars, hookVars, runVars, clientVars>>

\* Faulty variant: a failed GET is taken for an empty record and the call goes on.
UpdateGet_goes_on(c, resp) ==
    /\ up_pc[c] = "get"
    /\ up_get' = [up_get EXCEPT ![c] = get_model_version(resp)]
    /\ up_pc' = [up_pc EXCEPT ![c] = "patch"]
    /\ up_current' = [up_current EXCEPT ![c] =
                         IF get_model_version(resp) = "returned"
                         THEN rg_metadata ELSE EmptyMetadata]
    /\ up_outcome' = [up_outcome EXCEPT ![c] =
                         IF get_model_version(resp) = "returned"
                         THEN "none" ELSE get_model_version(resp)]
    /\ UNCHANGED <<rg_metadata, up_arg, up_patches>>
    /\ UNCHANGED <<pipeVars, sensorVars, backoffVars, hookVars, runVars, clientVars>>

\* current = self.get_model_version(model_name, version): the GET is answered
\* with the record as the registry stores it now, or fails, and then the
\* exception leaves update_model_version.
UpdateGet(c, resp) ==
    /\ up_pc[c] = "get"
    /\ up_get' = [up_get EXCEPT ![c] = get_model_version(resp)]
    /\ IF get_model_version(resp) = "returned"
       THEN /\ up_pc' = [up_pc EXCEPT ![c] = "patch"]
            /\ up_current' = [up_current EXCEPT ![c] = rg_metadata]
            /\ up_outcome' = up_outcome
       ELSE /\ up_pc' = [up_pc EXCEPT ![c] = "done"]
            /\ up_current' = up_current
            /\ up_outcome' = [up_outcome EXCEPT ![c] = get_model_version(resp)]
    /\ UNCHANGED <<rg_metadata, up_arg, up_patches>>
    /\ UNCHANGED <<pipeVars, sensorVars, backoffVars, hookVars, runVars, clientVars>>

\* The payload is built (with metadata: the merge of the argument into the
\* metadata read before) and sent by session.patch.  The registry sets the
\* fields the payload holds: that is why the client merges before it sends.
\* A request that fails leaves the record as it is.
UpdatePatch(c, resp) ==
    /\ up_pc[c] = "patch"
    /\ up_pc' = [up_pc EXCEPT ![c] = "done"]
    /\ up_patches' = [up_patches EXCEPT ![c] = @ + 1]
    /\ up_outcome' = [up_outcome EXCEPT ![c] = request_result(resp)]
    /\ rg_metadata' = IF request_result(resp) = "returned" /\ up_arg[c].given
                      THEN dict_update(up_current[c], up_arg[c].md)
                      ELSE rg_metadata
    /\ UNCHANGED <<up_arg, up_get, up_current>>
    /\ UNCHANGED <<pipeVars, sensorVars, backoffVars, hookVars, runVars, clientVars>>

UpdateNext ==
    \E c \in Clients :
        \/ \E arg \in MetadataArgs : UpdateCall(c, arg)
        \/ \E resp \in Responses : UpdateGet(c, resp)
        \/ \E resp \in Responses : UpdatePatch(c, resp)

SpecUpdate == UpdateInit /\ [][UpdateNext]_vars

(***************************************************************************)
(* Successive runs of the DAG under max_active_runs                        *)
(***************************************************************************)
\* DAG(..., max_active_runs=1)
max_active_runs == 1

\* The tasks that mount the persistent volume claim "model-pvc".
VolumeTasks == {"quantize_model", "validate_model", "deploy_model"}

RunsInit ==
    /\ PipeInit /\ SensorIdle /\ BackoffIdle /\ HookIdle /\ UpdateIdle
    /\ RunsIdle /\ ClientIdle

\* The scheduler creates the run of the next schedule interval, queued.
CreateRun(r) ==
    /\ rn_state[r] = "none"
    /\ r > 1 => rn_state[r - 1] # "none"
    /\ rn_state' = [rn_state EXCEPT ![r] = "queued"]
    /\ UNCHANGED <<rn_task, rn_try>>
    /\ UNCHANGED <<pipeVars, sensorVars, backoffVars, hookVars, updateVars, clientVars>>

\* Faulty variant: a queued run is set running whatever the number of active runs.
StartRun_unlimited(r) ==
    /\ rn_state[r] = "queued"
    /\ r > 1 => rn_state[r - 1] # "queued"
    /\ rn_state' = [rn_state EXCEPT ![r] = "running"]
    /\ UNCHANGED <<rn_task, rn_try>>
    /\ UNCHANGED <<pipeVars, sensorVars, backoffVars, hookVars, updateVars, clientVars>>

\* The scheduler sets the oldest queued run running while the DAG has fewer
\* than max_active_runs running runs.
StartRun(r) ==
    /\ rn_state[r] = "queued"
    /\ r > 1 => rn_state[r - 1] # "queued"
    /\ Cardinality({q \in Runs : rn_state[q] = "running"}) < max_active_runs
    /\ rn_state' = [rn_state EXCEPT ![r] = "running"]
    /\ UNCHANGED <<rn_task, rn_try>>
    /\ UNCHANGED <<pipeVars, sensorVars, backoffVars, hookVars, updateVars, clientVars>>

\* Task instances are scheduled for running runs only.
RunStartTask(r, t) ==
    /\ rn_state[r] = "running"
    /\ rn_task[r][t] = "none"
    /\ trigger_rule_met(rn_task[r], t)
    /\ rn_task' = [rn_task EXCEPT ![r][t] = "running"]
    /\ rn_try' = [rn_try EXCEPT ![r] = 1]
    /\ UNCHANGED rn_state
    /\ UNCHANGED <<pipeVars, sensorVars, backoffVars, hookVars, updateVars, clientVars>>

RunMarkUpstreamFailed(r, t) ==
    /\ rn_state[r] = "running"
    /\ rn_task[r][t] = "none"
    /\ trigger_rule_failed(rn_task[r], t)
    /\ rn_task' = [rn_task EXCEPT ![r][t] = "upstream_failed"]
    /\ UNCHANGED <<rn_state, rn_try>>
    /\ UNCHANGED <<pipeVars, sensorVars, backoffVars, hookVars, updateVars, clientVars>>

RunTaskSucceeds(r, t) ==
    /\ rn_task[r][t] = "running"
    /\ rn_task' = [rn_task EXCEPT ![r][t] = "success"]
    /\ rn_try' = [rn_try EXCEPT ![r] = 0]
    /\ UNCHANGED rn_state
    /\ UNCHANGED <<pipeVars, sensorVars, backoffVars, hookVars, updateVars, clientVars>>

RunTaskFails(r, t) ==
    /\ rn_task[r][t] = "running"
    /\ t \notin DummyTasks
    /\ IF is_eligible_to_retry(rn_try[r])
       THEN /\ rn_task' = [rn_task EXCEPT ![r][t] = "up_for_retry"]
            /\ rn_try' = rn_try
       ELSE /\ rn_task' = [rn_task EXCEPT ![r][t] = "failed"]
            /\ rn_try' = [rn_try EXCEPT ![r] = 0]
    /\ UNCHANGED rn_state
    /\ UNCHANGED <<pipeVars, sensorVars, backoffVars, hookVars, updateVars, clientVars>>

RunRetryTask(r, t) ==
    /\ rn_task[r][t] = "up_for_retry"
    /\ rn_task' = [rn_task EXCEPT ![r][t] = "running"]
    /\ rn_try' = [rn_try EXCEPT ![r] = @ + 1]
    /\ UNCHANGED rn_state
    /\ UNCHANGED <<pipeVars, sensorVars, backoffVars, hookVars, updateVars, clientVars>>

\* DagRun.update_state: once every task instance has finished the run is
\* success when its leaf (send_notification) succeeded, and failed otherwise.
FinishRun(r) ==
    /\ rn_state[r] = "running"
    /\ \A t \in TaskIds : rn_task[r][t] \in FinishedStates
    /\ rn_state' = [rn_state EXCEPT ![r] =
                        IF rn_task[r]["send_notification"] = "success"
                        THEN "success" ELSE "failed"]
    /\ UNCHANGED <<rn_task, rn_try>>
    /\ UNCHANGED <<pipeVars, sensorVars, backoffVars, hookVars, updateVars, clientVars>>

RunsNext ==
    \E r \in Runs :
        \/ CreateRun(r)
        \/ StartRun(r)
        \/ FinishRun(r)
        \/ \E t \in TaskIds :
              \/ RunStartTask(r, t)
              \/ RunMarkUpstreamFailed(r, t)
              \/ RunTaskSucceeds(r, t)
              \/ RunTaskFails(r, t)
              \/ RunRetryTask(r, t)

SpecRuns == RunsInit /\ [][RunsNext]_vars

(***************************************************************************)
(* ZetaReticulaClient (test_attention_api.py)                              *)
(***************************************************************************)
\* Retry(total=3, status_forcelist=[429, 500, 502, 503, 504],
\*       allowed_methods=["HEAD", "GET", "OPTIONS", "POST"])
total == 3
status_forcelist == {429, 500, 502, 503, 504}
allowed_methods == {"HEAD", "GET", "OPTIONS", "POST"}

\* The methods of the client and the HTTP method each sends.
ClientOps == {"authenticate", "quantize_model", "run_inference", "get_agent_status"}
http_method(op) == IF op = "get_agent_status" THEN "GET" ELSE "POST"

\* What the API may answer; NoResponse stands for a failed connection.
ClientResponses == {200, 404, 429, 500, 501, 503, NoResponse}

\* Faulty variant: the retrying adapter is mounted whatever verify_cert is.
retry_mounted_always(verify_cert) == TRUE

\* "if not verify_cert:" -- only then the adapter with the retry strategy is
\* mounted; otherwise the session keeps the default adapter (max_retries 0).
retry_mounted(verify_cert) == ~verify_cert

\* urllib3 sends the request again after this response: the response is a
\* failed connection, or its status is in status_forcelist and the method in
\* allowed_methods, and fewer than `total` retries were made.
is_retry(verify_cert, method, resp, retries_made) ==
    /\ retry_mounted(verify_cert)
    /\ \/ resp = NoResponse
       \/ resp \in status_forcelist /\ method \in allowed_methods
    /\ retries_made < total

\* How the call ends when the request is not sent again: the body is returned,
\* or the method catches the exception (and returns {"error": ...} or False):
\* RetryError when the retries are used up on a status of the forcelist,
\* ConnectionError for a failed connection, HTTPError from raise_for_status.
client_result(verify_cert, method, resp) ==
    IF resp = NoResponse THEN "ConnectionError"
    ELSE IF /\ retry_mounted(verify_cert)
            /\ resp \in status_forcelist /\ method \in allowed_methods
         THEN "RetryError"
    ELSE IF raises_for_status(resp) THEN "HTTPError"
    ELSE "returned"

ClientInit ==
    /\ PipeInit /\ SensorIdle /\ BackoffIdle /\ HookIdle /\ UpdateIdle /\ RunsIdle
    /\ cl_verify \in BOOLEAN
    /\ cl_pc = "idle" /\ cl_op = "none" /\ cl_calls = 0
    /\ cl_sent = 0 /\ cl_status = NoResponse /\ cl_outcome = "none"

\* A method of the client is called.
ClientCall(op) ==
    /\ cl_pc \in {"idle", "done"}
    /\ cl_calls < MaxCalls
    /\ cl_calls' = cl_calls + 1
    /\ cl_op' = op
    /\ cl_pc' = "send"
    /\ cl_sent' = 0 /\ cl_status' = NoResponse /\ cl_outcome' = "none"
    /\ UNCHANGED cl_verify
    /\ UNCHANGED <<pipeVars, sensorVars, backoffVars, hookVars, updateVars, runVars>>

\* The request of the call is sent (by session.post / session.get, or again by
\* the adapter) and answered.
ClientSend(resp) ==
    /\ cl_pc = "send"
    /\ cl_sent' = cl_sent + 1
    /\ cl_status' = resp
    /\ IF is_retry(cl_verify, http_method(cl_op), resp, cl_sent)
       THEN cl_pc' = "send" /\ cl_outcome' = "none"
       ELSE /\ cl_pc' = "done"
            /\ cl_outcome' = client_result(cl_verify, http_method(cl_op), resp)
    /\ UNCHANGED <<cl_verify, cl_op, cl_calls>>
    /\ UNCHANGED <<pipeVars, sensorVars, backoffVars, hookVars, updateVars, runVars>>

ClientNext ==
    \/ \E op \in ClientOps : ClientCall(op)
    \/ \E resp \in ClientResponses : ClientSend(resp)

SpecClient == ClientInit /\ [][ClientNext]_vars

(***************************************************************************)
(* Properties                                                              *)
(***************************************************************************)

\* C1: a task enters "running" (first attempt or retry) only when every direct
\* upstream task is "success"; an upstream task that is pending, running or
\* waiting for a retry blocks it.
C1_RunsOnlyAfterUpstreamSuccess ==
    [][\A t \in TaskIds :
          (state[t] # "running" /\ state'[t] = "running")
              => \A u \in upstream_task_ids(t) : state[u] = "success"]_vars

\* quantize_model is in its second attempt, after ingest_model succeeded.
C1_Witness ==
    /\ state["quantize_model"] = "running"
    /\ try_number["quantize_model"] = 2
    /\ state["ingest_model"] = "success"

\* C2: a task with an upstream task that ended failed or upstream_failed has
\* never been run, can only be pending or upstream_failed, is marked
\* upstream_failed by the scheduler's next look at it, and is upstream_failed
\* when the run is complete.
C2_FailurePropagatesDownstream ==
    \A t \in TaskIds :
        (\E u \in upstream_task_ids(t) : state[u] \in {"failed", "upstream_failed"})
            => /\ try_number[t] = 0
               /\ state[t] \in {"none", "upstream_failed"}
               /\ state[t] = "none" => ENABLED MarkUpstreamFailed(t)
               /\ RunComplete => state[t] = "upstream_failed"

\* quantize_model failed for good and the failure reached the last task.
C2_Witness ==
    /\ state["quantize_model"] = "failed"
    /\ state["validate_model"] = "upstream_failed"
    /\ state["send_notification"] = "upstream_failed"
    /\ try_number["send_notification"] = 0

\* C3: a complete run has produced a summary message.
C3_CompleteRunHasSummary == RunComplete => message # NoMessage

\* C4: the message follows the task states of the complete run: a failure
\* summary naming every failed task when there is one, else a success message
\* with the model version get_latest_model pushed.
C4_MessageFollowsStates ==
    RunComplete =>
        LET failed == {t \in TaskIds : state[t] = "failed"}
        IN  IF failed # {}
            THEN message.outcome = "Pipeline failed" /\ message.failed_tasks = failed
            ELSE /\ message.outcome = "Pipeline completed successfully"
                 /\ message.model_version
                        = xcom_pull(xcom, "get_latest_model", "model_version")
                 /\ message.model_version # NoValue

\* C5: a task instance whose job fails on every attempt is failed after
\* exactly 3 attempts.
C5_PermanentFailureTakesThreeAttempts == bk_state = "failed" => bk_try_number = 3

\* C6 (as claimed): the wait before the k-th retry is exactly
\* min(retry_delay * 2^(k-1), max_retry_delay).
C6_WaitIsExactBackoff ==
    \A k \in 1..Len(bk_waits) :
        bk_waits[k] = Min(retry_delay * 2^(k - 1), max_retry_delay)

\* C6 (amended): the wait before the k-th retry is at least
\* min(retry_delay * 2^(k-1), max_retry_delay), less than twice
\* retry_delay * 2^(k-1), never more than max_retry_delay, and the waits are
\* non-decreasing in k.
C6_WaitWithinBackoffWindow ==
    \A k \in 1..Len(bk_waits) :
        /\ Min(retry_delay * 2^(k - 1), max_retry_delay) <= bk_waits[k]
        /\ bk_waits[k] < 2 * retry_delay * 2^(k - 1)
        /\ bk_waits[k] <= max_retry_delay
        /\ k > 1 => bk_waits[k - 1] <= bk_waits[k]

\* Three retries were scheduled: the first with jitter, the third cut to the cap.
C6_Witness == Len(bk_waits) = 3 /\ bk_waits[1] = 7 /\ bk_waits[3] = max_retry_delay

\* C7: execute never raises the timeout while elapsed < timeout, and (for a
\* positive timeout) once a poll has been made and elapsed >= timeout it
\* neither polls nor sleeps again.
C7_TimeoutExactlyAtBound ==
    /\ [](sn_outcome = "timeout" => sn_elapsed >= sn_timeout)
    /\ [][(sn_timeout >= 1 /\ sn_pokes >= 1 /\ sn_elapsed >= sn_timeout)
              => (sn_pokes' = sn_pokes /\ sn_sleeps' = sn_sleeps)]_vars

\* C8: when the first poke is true, execute has returned with one poke made
\* and no sleep.
C8_ReadyOnFirstPoll ==
    (sn_pokes = 1 /\ sn_outcome = "ready") => (sn_sleeps = 0 /\ sn_pc = "done")

\* The first poke took one unit of time, was true, and execute returned.
C8_Witness ==
    /\ sn_outcome = "ready" /\ sn_pc = "done"
    /\ sn_pokes = 1 /\ sn_sleeps = 0 /\ sn_elapsed = 1

\* C9: when the pod check of a poke raised, execute has ended with that error:
\* the outcome is "error" (not "timeout", not a not-ready poll) and no step
\* of the loop follows.
C9_PokeErrorPropagates ==
    sn_pod = "raise" => (sn_outcome = "error" /\ sn_pc = "done" /\ ~ENABLED SensorNext)

\* The second poke, after one sleep, raised.
C9_Witness ==
    /\ sn_pod = "raise" /\ sn_outcome = "error"
    /\ sn_pokes = 2 /\ sn_sleeps = 1

\* C10: after an attempt of a task ended on a time bound, no further attempt
\* of that task starts and the task is not waiting for a retry.
C10_TimedOutNeverRetried ==
    [][\A t \in TaskIds :
          last_error[t] \in {"task_timeout", "sensor_timeout"}
              => (try_number'[t] = try_number[t] /\ state'[t] # "up_for_retry")]_vars

C12_InvokedWithPushedVersion ==
    \A t \in VersionedTasks :
        try_number[t] > 0
            => /\ rendered[t] # NoValue
               /\ rendered[t] = xcom_pull(xcom, "get_latest_model", "model_version")

\* C13: (get_latest_model, model_version) is written at most once in a run.
C13_WrittenAtMostOnce == mv_writes <= 1

\* C14: when quantize_model failed for good, the complete run has
\* validate_model, deploy_model and test_model upstream_failed without an
\* attempt, and a failure summary that lists quantize_model and nothing else.
C14_QuantizeFailureReported ==
    (RunComplete /\ state["quantize_model"] = "failed")
        => /\ \A t \in {"validate_model", "deploy_model", "test_model"} :
                 state[t] = "upstream_failed" /\ try_number[t] = 0
           /\ message.outcome = "Pipeline failed"
           /\ message.failed_tasks = {"quantize_model"}

\* C15: test_model has started only if a sensor task placed between
\* deploy_model and test_model has succeeded.
C15_TestWaitsForReadiness ==
    try_number["test_model"] > 0
        => \E w \in SensorTasks :
              /\ <<"deploy_model", w>> \in Edges
              /\ <<w, "test_model">> \in Edges
              /\ state[w] = "success"

\* No attempt failed so far: every task is pending, in its first attempt, or
\* succeeded on it.
AllFirstAttempt ==
    \A t \in TaskIds : try_number[t] <= 1 /\ state[t] \in {"none", "running", "success"}

\* C16: a run in which no attempt fails can always go on until it is complete,
\* and is then all "success" with a success message that holds the model
\* version stored in XCom.
C16_AllSucceedEndsInSuccessMessage ==
    AllFirstAttempt
        => /\ RunComplete \/ ENABLED Next
           /\ RunComplete
                => /\ \A t \in TaskIds : state[t] = "success"
                   /\ message.outcome = "Pipeline completed successfully"
                   /\ message.failed_tasks = {}
                   /\ message.model_version = latest_model
                   /\ message.model_version
                          = xcom_pull(xcom, "get_latest_model", "model_version")

\* The run is complete, every task succeeded on its first attempt and the
\* message holds the version.
C16_Witness ==
    /\ \A t \in TaskIds : state[t] = "success" /\ try_number[t] = 1
    /\ message.model_version = latest_model

\* C17: a call of a registry write sends at most one POST / PATCH; when that
\* request is answered with an error status or not at all, the call has ended
\* with the exception and sends nothing more.
C17_WritesAreSentOnce ==
    hk_op \in WriteOps
        => /\ hk_writes <= 1
           /\ (hk_writes = 1 /\ request_result(hk_status) # "returned")
                 => /\ hk_pc = "done"
                    /\ hk_outcome \in {"HTTPError", "ConnectionError"}
                    /\ ~ENABLED (\E resp \in Responses : HookWrite(resp))

\* The PATCH of update_model_version was answered 503 and the call raised.
C17_Witness ==
    /\ hk_op = "update_model_version" /\ hk_gets = 1 /\ hk_writes = 1
    /\ hk_status = 503 /\ hk_outcome = "HTTPError"

\* C18: a lookup that ended with an error after a 4xx response sent one GET;
\* one that ended with an error after a 5xx response or a connection failure
\* sent three.
C18_LookupsRetryTransientErrors ==
    (hk_op \in LookupOps /\ hk_pc = "done" /\ hk_outcome # "returned")
        => IF hk_status = NoResponse \/ hk_status >= 500
           THEN hk_gets = 3
           ELSE hk_gets = 1

\* C19: a call answered 404 ends with an error other than the one it ends
\* with for the other error statuses.
C19_NotFoundIsDistinct ==
    (hk_pc = "done" /\ hk_status = 404)
        => hk_outcome \notin {"returned", request_result(400), request_result(500)}

\* C20: both workflow graphs of the repository (zeta_reticula_workflow and
\* example_dag) have unique task ids, no edge to an undeclared task and no
\* task that is its own transitive predecessor; so in a run a task that has
\* started never waits for itself and all its transitive predecessors finished.
C20_GraphsAreAcyclic ==
    /\ unique_ids(task_ids) /\ unique_ids(example_task_ids)
    /\ {task_ids[i] : i \in DOMAIN task_ids} = TaskIds
    /\ no_dangling_edge(task_ids, Edges)
    /\ no_dangling_edge(example_task_ids, ExampleEdges)
    /\ acyclic(task_ids, Edges) /\ acyclic(example_task_ids, ExampleEdges)
    /\ \A t \in TaskIds :
          state[t] # "none"
              => /\ t \notin transitive_upstream(Edges, t)
                 /\ \A u \in transitive_upstream(Edges, t) : state[u] \in FinishedStates

\* Every task of the graph has run and succeeded, one of them on a retry.
C20_Witness ==
    /\ \A t \in TaskIds : state[t] = "success"
    /\ \E t \in TaskIds : try_number[t] > 1

\* C21: finished task states are absorbing: a task that is success, failed or
\* upstream_failed keeps that state in every later step of the run, and no
\* further attempt of it starts.
C21_FinishedStatesAreAbsorbing ==
    [][\A t \in TaskIds :
          state[t] \in FinishedStates
              => (state'[t] = state[t] /\ try_number'[t] = try_number[t])]_vars

\* ingest_model failed for good after get_latest_model succeeded, and the run
\* went on to its end.
C21_Witness ==
    /\ RunComplete
    /\ state["get_latest_model"] = "success"
    /\ state["ingest_model"] = "failed"
    /\ state["test_model"] = "upstream_failed"

\* C22: once the run is cancelled the sensor performs no further poll, and
\* its execution ends as skipped (with the cancellation as the reason), not
\* with an error, a timeout or a ready result.
C22_CancelStopsTheSensor ==
    /\ [][sn_cancelled => sn_pokes' = sn_pokes]_vars
    /\ [](sn_cancelled /\ sn_pc = "done" => sn_outcome = "skipped")

\* C23: each invocation of get_latest_model pushes at most once, and one that
\* returned pushed exactly one entry, under model_version, whose value is the
\* value it returned (which the operator stores under return_value after the
\* callable has returned).
C23_OnePushOfTheReturnedValue ==
    LET glm == "get_latest_model"
    IN  /\ mv_writes <= try_number[glm]
        /\ state[glm] = "running" => xcom_pull(xcom, glm, "return_value") = NoValue
        /\ state[glm] = "success"
              => /\ mv_writes >= 1
                 /\ xcom_pull(xcom, glm, "model_version") = latest_model
                 /\ xcom_pull(xcom, glm, "return_value")
                        = xcom_pull(xcom, glm, "model_version")

\* get_latest_model returned in its second invocation; both invocations pushed.
C23_Witness ==
    /\ state["get_latest_model"] = "success"
    /\ try_number["get_latest_model"] = 2
    /\ mv_writes = 2

\* C24: after the first poll the predicate is evaluated again only while the
\* elapsed time is below the timeout (the sleep is followed by the timeout
\* check, not directly by the next poll).
C24_NoPollAtOrAfterTimeout ==
    [][(sn_timeout >= 1 /\ sn_pokes >= 1 /\ sn_pokes' > sn_pokes)
          => sn_elapsed < sn_timeout]_vars

\* C25: an update_model_version call never removes a key from the stored
\* metadata, whatever other calls run at the same time; and a call that
\* returns leaves its own keys stored with its values.
C25_NoStoredKeyIsLost ==
    /\ [][\A k \in Keys : rg_metadata[k] # NoValue => rg_metadata'[k] # NoValue]_vars
    /\ [][\A c \in Clients :
             (up_pc[c] = "patch" /\ up_outcome'[c] = "returned")
                 => \A k \in Keys :
                       up_arg[c].md[k] # NoValue => rg_metadata'[k] = up_arg[c].md[k]]_vars

\* C30: update_model_version sends its PATCH only after its GET returned the
\* record; a call whose GET failed (404 included) has ended with the error,
\* has sent no PATCH, and the step in which the GET failed left the stored
\* record as it was.
C30_FailedGetSendsNoPatch ==
    /\ [](\A c \in Clients :
             /\ up_patches[c] <= 1
             /\ up_patches[c] = 1 => up_get[c] = "returned"
             /\ up_get[c] \notin {"none", "returned"}
                  => /\ up_pc[c] = "done"
                     /\ up_outcome[c] = up_get[c]
                     /\ up_patches[c] = 0
                     /\ ~ENABLED (\E resp \in Responses : UpdatePatch(c, resp)))
    /\ [][\A c \in Clients :
             (up_get[c] = "none" /\ up_get'[c] \notin {"none", "returned"})
                 => rg_metadata' = rg_metadata]_vars

\* The GET of c1 was answered 404 after c2 had stored a key; c1 sent no PATCH.
C30_Witness ==
    /\ up_get["c1"] = "NameError" /\ up_pc["c1"] = "done" /\ up_patches["c1"] = 0
    /\ up_outcome["c2"] = "returned" /\ rg_metadata["owner"] = "v1"

\* C26: a poke returns True exactly when the pod check returned true and the
\* health check returned true; for a pod that is not ready the health check
\* is not evaluated and the poke returns False; for a ready pod whose health
\* check fails the poke returns False and does not raise.
C26_PokeIsPodReadyAndHealthy ==
    sn_pokes >= 1
        => /\ sn_result = "true" <=> (sn_pod = "ready" /\ sn_health = "healthy")
           /\ sn_pod = "not_ready" => (sn_health = "not_evaluated" /\ sn_result = "false")
           /\ (sn_pod = "ready" /\ sn_health = "unhealthy")
                 => (sn_result = "false" /\ sn_outcome # "error")

\* The second poke found the pod ready and the health check failing, and the
\* loop went on to the timeout check.
C26_Witness ==
    /\ sn_pokes = 2 /\ sn_pod = "ready" /\ sn_health = "unhealthy"
    /\ sn_result = "false" /\ sn_pc = "check"

\* C27: send_notification is executed only when every other task is success;
\* while it runs its list of failed tasks is empty, and the failure message
\* is never produced.
C27_NotificationRunsOnlyAfterAllSucceeded ==
    /\ try_number["send_notification"] > 0
          => \A t \in TaskIds \ {"send_notification"} : state[t] = "success"
    /\ state["send_notification"] = "running"
          => /\ send_notification(state, xcom).failed_tasks = {}
             /\ send_notification(state, xcom).outcome = "Pipeline completed successfully"
    /\ message.outcome # "Pipeline failed"
    /\ message.failed_tasks = {}

\* send_notification returned its message in its third attempt.
C27_Witness ==
    /\ state["send_notification"] = "success"
    /\ try_number["send_notification"] = 3
    /\ message.outcome = "Pipeline completed successfully"

\* C29: the graph is a single chain (every task has at most one predecessor
\* and at most one successor), and at most one task of the run is running at
\* any time.
C29_AtMostOneTaskRunning ==
    /\ \A t \in TaskIds :
          /\ Cardinality({e \in Edges : e[2] = t}) <= 1
          /\ Cardinality({e \in Edges : e[1] = t}) <= 1
    /\ Cardinality({t \in TaskIds : state[t] = "running"}) <= 1

\* validate_model is running, in its third attempt.
C29_Witness ==
    /\ state["validate_model"] = "running"
    /\ try_number["validate_model"] = 3
    /\ state["quantize_model"] = "success"

\* C28: at most max_active_runs = 1 run is running; a task of a later run
\* has started only when every task of each earlier run has finished; and
\* tasks of two runs that mount the model storage volume are never active at
\* the same time.
C28_OneActiveRun ==
    /\ Cardinality({r \in Runs : rn_state[r] = "running"}) <= 1
    /\ \A r1, r2 \in Runs :
          (r1 < r2 /\ \E t \in TaskIds : rn_task[r2][t] # "none")
              => \A t \in TaskIds : rn_task[r1][t] \in FinishedStates
    /\ \A r1, r2 \in Runs :
          r1 # r2
              => ~(/\ \E t \in VolumeTasks : rn_task[r1][t] \in {"running", "up_for_retry"}
                   /\ \E t \in VolumeTasks : rn_task[r2][t] \in {"running", "up_for_retry"})

\* Run 2 is executing quantize_model after run 1 ended failed.
C28_Witness ==
    /\ rn_state[1] = "failed"
    /\ rn_state[2] = "running"
    /\ rn_task[2]["quantize_model"] = "running"

\* C31: for every timeout >= 0 and retry_delay > 0, execute ends: it makes at
\* most floor(timeout / retry_delay) + 2 pokes, and eventually it has returned
\* True, raised the error of a poke or raised the timeout (or, in a cancelled
\* run, been terminated).
C31_ExecuteTerminates ==
    /\ [](sn_pokes <= (sn_timeout \div sn_retry_delay) + 2)
    /\ [](sn_pc = "done" /\ ~sn_cancelled => sn_outcome \in {"ready", "error", "timeout"})
    /\ <>(sn_pc = "done")

\* The timeout was raised after the largest number of pokes the bound allows.
C31_Witness ==
    /\ sn_outcome = "timeout" /\ sn_pc = "done"
    /\ sn_timeout = 3 /\ sn_retry_delay = 2
    /\ sn_pokes = (sn_timeout \div sn_retry_delay) + 2

\* C32: a client constructed with verify_cert = True sends every request
\* exactly once, and a 5xx answer ends the call with the error after that
\* one attempt; a client constructed with verify_cert = False sends a request
\* at most 1 + 3 times, and sends it again only after a failed connection or
\* a status of the forcelist (the methods used, GET and POST, are allowed).
C32_RetriesOnlyWithoutVerify ==
    /\ [](cl_verify
             => /\ cl_sent <= 1
                /\ cl_sent = 1 => cl_pc = "done"
                /\ (cl_sent = 1 /\ cl_status >= 500)
                      => cl_outcome = "HTTPError")
    /\ [](cl_sent <= 1 + total)
    /\ [](cl_op # "none" => http_method(cl_op) \in allowed_methods)
    /\ [][cl_sent' > 1 => (~cl_verify /\ cl_status \in status_forcelist \cup {NoResponse})]_vars
    /\ [](~cl_verify /\ cl_pc = "done" /\ cl_status \in status_forcelist
             => cl_sent = 1 + total /\ cl_outcome = "RetryError")

\* Without verify_cert a POST was sent four times, each answered 503, and the
\* call ended with the error.
C32_Witness ==
    /\ ~cl_verify /\ cl_op = "quantize_model" /\ cl_pc = "done"
    /\ cl_sent = 4 /\ cl_status = 503 /\ cl_outcome = "RetryError"

====
